---- MODULE Spec2Model ----
(***************************************************************************)
(* Model of pytori: scheme elements (pytori/elements.py), the duplicate    *)
(* finder (pytori/utilities.py) and the loader (pytori/parse.py).          *)
(*                                                                         *)
(* Python objects are records carrying their class in the field cls.       *)
(* An operation that may raise returns a record with the fields raised     *)
(* and exc next to its ordinary result.                                    *)
(***************************************************************************)
EXTENDS Integers, Sequences, FiniteSets, TLC

VARIABLES fd_x, ref, ref0, tori, tori0, tori_dict, call, last_collect, prev_collect

vars == <<fd_x, ref, ref0, tori, tori0, tori_dict, call, last_collect, prev_collect>>

(***************************************************************************)
(* Bounds of the explored inputs.                                          *)
(***************************************************************************)
MaxSeqLen == 4
MaxInitTags == 2
MaxTagGroups == 2
MaxTags == 2
MaxReferences == 2
MaxTagGroupDicts == 2
MaxTagDicts == 2
MaxReferenceDicts == 1
MaxErrors == 3

\* All sequences over S of length at most n.
SeqsUpTo(S, n) == UNION {[1..k -> S] : k \in 0..n}

NoneVal == "None"

(***************************************************************************)
(* Scheme elements                                                         *)
(***************************************************************************)
\* int objects, the elements of the sequences in tests/test_utilities.py
PyInt(n) == [cls |-> "int", v |-> n]

\* __slots__ of each element class
Slots(cls) ==
  CASE cls = "TagGroup" -> <<"name", "description">>
    [] cls = "Tag" -> <<"name", "description", "group">>
    [] cls = "Reference" -> <<"title", "author", "tags", "url">>

\* Reference.__required_slots__
RequiredSlots == <<"title", "author", "tags">>

\* __key_attr__ of each element class
KeyAttr(cls) ==
  CASE cls = "TagGroup" -> "name"
    [] cls = "Tag" -> "name"
    [] cls = "Reference" -> "title"

TagGroup(name, description) ==
  [cls |-> "TagGroup", name |-> name, description |-> description]

DEFAULT_TAG_GROUP == TagGroup("Default", "Default Tag Group")

Tag(name, description, group) ==
  [cls |-> "Tag", name |-> name, description |-> description, group |-> group]

\* A str author is [str |-> TRUE, s |-> "..."], an iterable of str
\* [str |-> FALSE, l |-> <<...>>].
PyStr(s) == [str |-> TRUE, s |-> s]
PyList(l) == [str |-> FALSE, l |-> l]

Reference(title, author, url, tags) ==
  [cls |-> "Reference", title |-> title,
   author |-> IF author.str THEN <<author.s>> ELSE author.l,
   url |-> url, tags |-> tags]

\* Equality that ignores everything but the key attribute.
KeyOnly_eq(self, other) ==
  /\ other.cls = self.cls
  /\ self[KeyAttr(self.cls)] = other[KeyAttr(self.cls)]

\* SchemeElement.__eq__
SchemeElement_eq(self, other) ==
  IF other.cls # self.cls THEN FALSE
  ELSE \A i \in 1..Len(Slots(self.cls)) :
         self[Slots(self.cls)[i]] = other[Slots(self.cls)[i]]

\* Python ==, dispatched on the class of the left operand
PyEq(a, b) ==
  IF a.cls = "int" THEN b.cls = "int" /\ a.v = b.v
  ELSE SchemeElement_eq(a, b)

\* Python "item in container" for a set or a tuple of objects
PyIn(item, container) == \E c \in container : PyEq(c, item)

Range(s) == {s[i] : i \in 1..Len(s)}

\* SchemeElement.__repr__
Repr(self) == <<self.cls, self[KeyAttr(self.cls)]>>

ReprList(l) == [i \in 1..Len(l) |-> Repr(l[i])]

(***************************************************************************)
(* utilities.find_duplicates                                               *)
(***************************************************************************)
RECURSIVE find_duplicates_loop(_, _, _, _)
find_duplicates_loop(xs, i, seen, dups) ==
  IF i > Len(xs) THEN dups
  ELSE IF ~PyIn(xs[i], seen)
       THEN find_duplicates_loop(xs, i + 1, seen \cup {xs[i]}, dups)
       ELSE find_duplicates_loop(xs, i + 1, seen, Append(dups, xs[i]))

\* Reports every duplicate once only.
RECURSIVE find_duplicates_once_loop(_, _, _, _)
find_duplicates_once_loop(xs, i, seen, dups) ==
  IF i > Len(xs) THEN dups
  ELSE IF ~PyIn(xs[i], seen)
       THEN find_duplicates_once_loop(xs, i + 1, seen \cup {xs[i]}, dups)
       ELSE IF PyIn(xs[i], Range(dups))
            THEN find_duplicates_once_loop(xs, i + 1, seen, dups)
            ELSE find_duplicates_once_loop(xs, i + 1, seen, Append(dups, xs[i]))

find_duplicates_once(xs) == find_duplicates_once_loop(xs, 1, {}, <<>>)

\* Compares each item with its predecessor only.
find_duplicates_adjacent(xs) ==
  LET RECURSIVE go(_, _)
      go(i, dups) ==
        IF i > Len(xs) THEN dups
        ELSE IF i > 1 /\ PyEq(xs[i - 1], xs[i])
             THEN go(i + 1, Append(dups, xs[i]))
             ELSE go(i + 1, dups)
  IN go(1, <<>>)

find_duplicates(xs) == find_duplicates_loop(xs, 1, {}, <<>>)

(***************************************************************************)
(* Reference.add_tag                                                       *)
(***************************************************************************)
\* Appends without looking at the tags already present.
add_tag_always(self, tag) == [self EXCEPT !.tags = Append(@, tag)]

add_tag(self, tag) ==
  IF ~PyIn(tag, Range(self.tags))
  THEN [self EXCEPT !.tags = self.tags \o <<tag>>]
  ELSE self

(***************************************************************************)
(* TORI                                                                    *)
(***************************************************************************)
ElementTypes == {"TagGroup", "Tag", "Reference"}

\* The attributes the class TORI defines (elements.py, class body).
TORI_attrs ==
  {"__slots__", "__init__", "___contains__", "_clear_errors", "_raise_error",
   "_set_keys", "validate", "validate_tag_groups", "validate_tags",
   "validate_references"}

\* TORI._set_keys
set_keys(self) ==
  [self EXCEPT !.keys =
     [element_type \in ElementTypes |->
        LET elements == CASE element_type = "TagGroup" -> self.tag_groups
                          [] element_type = "Tag" -> self.tags
                          [] element_type = "Reference" -> self.references
        IN [i \in 1..Len(elements) |-> elements[i][KeyAttr(element_type)]]]]

\* TORI.__init__
TORI(tag_groups, tags, references) ==
  set_keys([cls |-> "TORI", tag_groups |-> tag_groups, tags |-> tags,
            references |-> references, keys |-> NoneVal, errors |-> <<>>])

NoTori == [cls |-> "NoneType"]

\* TORI.___contains__ (x is always a SchemeElement here)
contains(self, x) ==
  LET x_type == x.cls
      x_key == x[KeyAttr(x_type)]
  IN x_key \in Range(self.keys[x_type])

\* The expression "x in self": Python calls type(self).__contains__ when the
\* class defines it, else iterates via __iter__ or __getitem__, else raises
\* TypeError (argument of type 'TORI' is not iterable).
in_operator(self, x) ==
  IF "__contains__" \in TORI_attrs
  THEN [raised |-> FALSE, exc |-> NoneVal, ret |-> contains(self, x)]
  ELSE [raised |-> TRUE, exc |-> "TypeError", ret |-> FALSE]

\* Keeps the messages of earlier runs.
keep_errors(self) == self

\* TORI._clear_errors
clear_errors(self) == [self EXCEPT !.errors = <<>>]

Msg(text, arg) == [text |-> text, arg |-> arg]

NoExc == [type |-> NoneVal]

\* TORI._raise_error
raise_error(self, message, collect) ==
  IF collect
  THEN [self |-> [self EXCEPT !.errors = Append(@, message)],
        raised |-> FALSE, exc |-> NoExc]
  ELSE [self |-> self, raised |-> TRUE,
        exc |-> [type |-> "TORISchemeError", message |-> message]]

TagGroupsMsg(dups) == Msg("Tag Groups must be unique, found duplicates", ReprList(dups))
TagsMsg(dups) == Msg("Tags must be unique, found duplicates", ReprList(dups))
ReferencesMsg(dups) == Msg("References must be unique, found duplicates", ReprList(dups))

\* Never reports a duplicate tag group.
validate_tag_groups_skip(self, collect_errors) ==
  [self |-> self, raised |-> FALSE, exc |-> NoExc, ret |-> TRUE]

\* TORI.validate_tag_groups
validate_tag_groups(self, collect_errors) ==
  LET dups == find_duplicates(self.tag_groups) IN
  IF dups # <<>>
  THEN LET r == raise_error(self, TagGroupsMsg(dups), collect_errors)
       IN [self |-> r.self, raised |-> r.raised, exc |-> r.exc, ret |-> FALSE]
  ELSE [self |-> self, raised |-> FALSE, exc |-> NoExc, ret |-> TRUE]

\* The attribute loop of validate_tags, from tag i on; _raise_error is called
\* without its collect argument, which defaults to False.
RECURSIVE validate_tags_loop(_, _, _)
validate_tags_loop(self, i, valid) ==
  IF i > Len(self.tags) THEN [self |-> self, raised |-> FALSE, exc |-> NoExc, ret |-> valid]
  ELSE
    LET t == self.tags[i]
        r1 == IF t.name = ""
              THEN raise_error(self, Msg("Tag missing name", Repr(t)), FALSE)
              ELSE [self |-> self, raised |-> FALSE, exc |-> NoExc]
        v1 == IF t.name = "" THEN FALSE ELSE valid
    IN IF r1.raised THEN [self |-> r1.self, raised |-> TRUE, exc |-> r1.exc, ret |-> FALSE]
       ELSE
         LET r2 == IF t.description = ""
                   THEN raise_error(r1.self, Msg("Tag missing description", Repr(t)), FALSE)
                   ELSE [self |-> r1.self, raised |-> FALSE, exc |-> NoExc]
             v2 == IF t.description = "" THEN FALSE ELSE v1
         IN IF r2.raised THEN [self |-> r2.self, raised |-> TRUE, exc |-> r2.exc, ret |-> FALSE]
            ELSE validate_tags_loop(r2.self, i + 1, v2)

\* TORI.validate_tags
validate_tags(self, collect_errors) ==
  LET a == validate_tags_loop(self, 1, TRUE) IN
  IF a.raised THEN a
  ELSE
    LET dups == find_duplicates(a.self.tags) IN
    IF dups # <<>>
    THEN LET r == raise_error(a.self, TagsMsg(dups), collect_errors)
         IN [self |-> r.self, raised |-> r.raised, exc |-> r.exc, ret |-> FALSE]
    ELSE a

\* The attribute loop of validate_references, from reference i on.
RECURSIVE validate_references_loop(_, _, _)
validate_references_loop(self, i, valid) ==
  IF i > Len(self.references) THEN [self |-> self, raised |-> FALSE, exc |-> NoExc, ret |-> valid]
  ELSE
    LET r == self.references[i]
        r1 == IF r.title = ""
              THEN raise_error(self, Msg("Reference missing title", Repr(r)), FALSE)
              ELSE [self |-> self, raised |-> FALSE, exc |-> NoExc]
        v1 == IF r.title = "" THEN FALSE ELSE valid
    IN IF r1.raised THEN [self |-> r1.self, raised |-> TRUE, exc |-> r1.exc, ret |-> FALSE]
       ELSE
         LET r2 == IF r.author = <<>>
                   THEN raise_error(r1.self, Msg("Reference missing author", Repr(r)), FALSE)
                   ELSE [self |-> r1.self, raised |-> FALSE, exc |-> NoExc]
             v2 == IF r.author = <<>> THEN FALSE ELSE v1
         IN IF r2.raised THEN [self |-> r2.self, raised |-> TRUE, exc |-> r2.exc, ret |-> FALSE]
            ELSE validate_references_loop(r2.self, i + 1, v2)

\* TORI.validate_references
validate_references(self, collect_errors) ==
  LET a == validate_references_loop(self, 1, TRUE) IN
  IF a.raised THEN a
  ELSE
    LET dups == find_duplicates(a.self.references) IN
    IF dups # <<>>
    THEN LET r == raise_error(a.self, ReferencesMsg(dups), collect_errors)
         IN [self |-> r.self, raised |-> r.raised, exc |-> r.exc, ret |-> FALSE]
    ELSE a

\* The sub-validations of TORI.validate, in the order it calls them
Validations == <<"validate_tag_groups", "validate_tags", "validate_references">>

\* The k-th call of a sub-validation in TORI.validate
call_validation(k, self, collect_errors) ==
  CASE k = 1 -> validate_tag_groups(self, collect_errors)
    [] k = 2 -> validate_tags(self, collect_errors)
    [] k = 3 -> validate_references(self, collect_errors)

\* The body of TORI.validate from its k-th sub-validation on; valid is the
\* conjunction of the results so far, entered lists the sub-validations
\* the call has entered.
RECURSIVE run_validations(_, _, _, _, _)
run_validations(self, collect_errors, k, valid, entered) ==
  IF k > Len(Validations)
  THEN [self |-> self, raised |-> FALSE, exc |-> NoExc,
        ret |-> IF collect_errors THEN [list |-> TRUE, v |-> self.errors]
                ELSE [list |-> FALSE, v |-> valid],
        entered |-> entered]
  ELSE LET r == call_validation(k, self, collect_errors) IN
       IF r.raised
       THEN [self |-> r.self, raised |-> TRUE, exc |-> r.exc, ret |-> FALSE,
             entered |-> Append(entered, Validations[k])]
       ELSE run_validations(r.self, collect_errors, k + 1, valid /\ r.ret,
                            Append(entered, Validations[k]))

\* TORI.validate
validate(self, collect_errors) ==
  run_validations(clear_errors(self), collect_errors, 1, TRUE, <<>>)

(***************************************************************************)
(* parse.load_dict                                                         *)
(*                                                                         *)
(* The input mapping is a function from its top-level keys to values; a    *)
(* value is [list |-> TRUE, v |-> <<...>>] or a non-list [list |-> FALSE]; *)
(* an element is [dict |-> TRUE, d |-> mapping] or a non-dict.             *)
(***************************************************************************)
Min(S) == CHOOSE m \in S : \A o \in S : m <= o
Max(S) == CHOOSE m \in S : \A o \in S : m >= o

\* str.lower on the top-level keys the inputs use
Lower(k) ==
  CASE k = "Tags" -> "tags"
    [] k = "TAG_GROUPS" -> "tag_groups"
    [] k = "References" -> "references"
    [] OTHER -> k

\* TORIDictKeys, in the order load_dict checks them
TORIDictKeys == <<"tag_groups", "tags", "references">>

ListNames == <<"Tag Groups", "Tags", "References">>

ParseError(text, arg) == [type |-> "TORIParseError", message |-> Msg(text, arg)]

KeyError(key) == [type |-> "KeyError", message |-> Msg("KeyError", key)]

Raise(exc) == [raised |-> TRUE, exc |-> exc, ret |-> NoneVal]

Return(v) == [raised |-> FALSE, exc |-> NoExc, ret |-> v]

\* {k.lower(): k for k in tori_dict.keys()}; no two keys of an input have the
\* same lower-case form
key_map(d) ==
  [l \in {Lower(k) : k \in DOMAIN d} |-> CHOOSE k \in DOMAIN d : Lower(k) = l]

\* The first key of keys that the mapping d lacks, or NoneVal
FirstMissing(keys, d) ==
  LET miss == {j \in 1..Len(keys) : keys[j] \notin DOMAIN d}
  IN IF miss = {} THEN NoneVal ELSE keys[Min(miss)]

\* {getattr(e, key_attr): e for e in elements}: a later element replaces an
\* earlier one with the same key
ElementMap(elements, key_attr) ==
  [k \in {elements[i][key_attr] : i \in 1..Len(elements)} |->
     elements[Max({i \in 1..Len(elements) : elements[i][key_attr] = k})]]

\* The shape checks of the three top-level values, from list j on
RECURSIVE check_lists(_, _)
check_lists(lists, j) ==
  IF j > Len(lists) THEN Return(TRUE)
  ELSE IF ~lists[j].list
       THEN Raise(ParseError("must be passed as a list", ListNames[j]))
       ELSE LET bad == {e \in 1..Len(lists[j].v) : ~lists[j].v[e].dict}
            IN IF bad # {}
               THEN Raise(ParseError("element must be passed as a dict", ListNames[j]))
               ELSE check_lists(lists, j + 1)

\* Build Tag Group elements, from mapping i on
RECURSIVE build_tag_groups(_, _, _)
build_tag_groups(tag_group_dicts, i, tag_groups) ==
  IF i > Len(tag_group_dicts) THEN Return(tag_groups)
  ELSE
    LET tag_group_dict == tag_group_dicts[i].d
        missing == FirstMissing(Slots("TagGroup"), tag_group_dict)
    IN IF missing # NoneVal
       THEN Raise(ParseError("TagGroup dict missing key", missing))
       ELSE build_tag_groups(tag_group_dicts, i + 1,
              Append(tag_groups,
                     TagGroup(tag_group_dict.name, tag_group_dict.description)))

\* Build Tag elements, from mapping i on
RECURSIVE build_tags(_, _, _, _)
build_tags(tag_dicts, tag_group_map, i, tags) ==
  IF i > Len(tag_dicts) THEN Return(tags)
  ELSE
    LET tag_dict == tag_dicts[i].d
        missing == FirstMissing(Slots("Tag"), tag_dict)
    IN IF missing # NoneVal
       THEN Raise(ParseError("Tag dict missing key", missing))
       ELSE IF tag_dict.group \notin DOMAIN tag_group_map
            THEN Raise(ParseError("Tag has undefined group",
                                  <<tag_dict.name, tag_dict.group>>))
            ELSE build_tags(tag_dicts, tag_group_map, i + 1,
                   Append(tags, Tag(tag_dict.name, tag_dict.description,
                                    tag_group_map[tag_dict.group])))

\* Resolve the tag names of one reference, from name j on
RECURSIVE resolve_tags(_, _, _, _, _)
resolve_tags(title, raw_tags, tag_map, j, reference_tags) ==
  IF j > Len(raw_tags) THEN Return(reference_tags)
  ELSE IF raw_tags[j] \notin DOMAIN tag_map
       THEN Raise(ParseError("Reference has undefined tag", <<title, raw_tags[j]>>))
       ELSE resolve_tags(title, raw_tags, tag_map, j + 1,
                         Append(reference_tags, tag_map[raw_tags[j]]))

\* Build Reference elements, from mapping i on; the comprehension over
\* Reference.__slots__ reads every slot of the mapping, url included
RECURSIVE build_references(_, _, _, _)
build_references(reference_dicts, tag_map, i, references) ==
  IF i > Len(reference_dicts) THEN Return(references)
  ELSE
    LET reference_dict == reference_dicts[i].d
        missing == FirstMissing(RequiredSlots, reference_dict)
    IN IF missing # NoneVal
       THEN Raise(ParseError("Reference dict missing required key", missing))
       ELSE
         LET r == resolve_tags(reference_dict.title, reference_dict.tags, tag_map, 1, <<>>)
             absent == FirstMissing(Slots("Reference"), reference_dict)
         IN IF r.raised THEN r
            ELSE IF absent # NoneVal THEN Raise(KeyError(absent))
            ELSE build_references(reference_dicts, tag_map, i + 1,
                   Append(references,
                          Reference(reference_dict.title, reference_dict.author,
                                    reference_dict.url, r.ret)))

\* parse.load_dict
load_dict(d) ==
  LET km == key_map(d)
      missing == FirstMissing(TORIDictKeys, km)
  IN IF missing # NoneVal
     THEN Raise(ParseError("Dict missing top-level key", missing))
     ELSE
       LET tag_group_dicts == d[km["tag_groups"]]
           tag_dicts == d[km["tags"]]
           reference_dicts == d[km["references"]]
           shape == check_lists(<<tag_group_dicts, tag_dicts, reference_dicts>>, 1)
       IN IF shape.raised THEN shape
          ELSE
            LET g == build_tag_groups(tag_group_dicts.v, 1, <<DEFAULT_TAG_GROUP>>) IN
            IF g.raised THEN g
            ELSE
              LET t == build_tags(tag_dicts.v, ElementMap(g.ret, KeyAttr("TagGroup")), 1, <<>>) IN
              IF t.raised THEN t
              ELSE
                LET r == build_references(reference_dicts.v,
                                          ElementMap(t.ret, KeyAttr("Tag")), 1, <<>>) IN
                IF r.raised THEN r
                ELSE Return(TORI(g.ret, t.ret, r.ret))

(***************************************************************************)
(* Inputs                                                                  *)
(***************************************************************************)
IntUniverse == {PyInt(1), PyInt(2), PyInt(3)}

G1 == TagGroup("g", "d1")
G2 == TagGroup("g", "d2")

TagGroupUniverse == {G1, G2}

T1 == Tag("t", "d", G1)

TagUniverse == {T1, Tag("t", "", G1), Tag("", "d", G1)}

\* Tags a caller may hand to add_tag
AddTagUniverse == TagUniverse \cup {Tag("t", "d", G2)}

ReferenceUniverse ==
  {Reference("r", PyStr("a"), NoneVal, <<T1>>),
   Reference("", PyStr("a"), NoneVal, <<T1>>),
   Reference("r", PyList(<<>>), NoneVal, <<T1>>)}

Dict(d) == [dict |-> TRUE, d |-> d]
List(l) == [list |-> TRUE, v |-> l]

TagGroupDictUniverse ==
  {Dict([name |-> "g", description |-> "d1"]),
   Dict([name |-> "g", description |-> "d2"]),
   Dict([name |-> "Default"])}

TagDictUniverse ==
  {Dict([name |-> "t", description |-> "d", group |-> "g"]),
   Dict([name |-> "t", description |-> "e", group |-> "Default"]),
   Dict([name |-> "s", description |-> "d", group |-> "h"])}

ReferenceDictUniverse ==
  {Dict([title |-> "r", author |-> PyStr("a"), tags |-> <<"t">>, url |-> "u"]),
   Dict([title |-> "r", author |-> PyList(<<"a", "b">>), tags |-> <<"t">>]),
   Dict([title |-> "r", author |-> PyStr("a"), tags |-> <<"s">>, url |-> "u"]),
   Dict([title |-> "r", author |-> PyStr("a"), url |-> "u"]),
   [dict |-> FALSE]}

\* The input mappings: complete ones with lower-case or mixed-case top-level
\* keys, one without the key tags, one whose tags value is not a list
InputDicts ==
  LET gs == {List(l) : l \in SeqsUpTo(TagGroupDictUniverse, MaxTagGroupDicts)}
      ts == {List(l) : l \in SeqsUpTo(TagDictUniverse, MaxTagDicts)}
      rs == {List(l) : l \in SeqsUpTo(ReferenceDictUniverse, MaxReferenceDicts)}
  IN    {[tag_groups |-> g, tags |-> t, references |-> r] : g \in gs, t \in ts, r \in rs}
   \cup {[TAG_GROUPS |-> g, Tags |-> t, References |-> r] : g \in gs, t \in ts, r \in rs}
   \cup {[tag_groups |-> g, references |-> r] : g \in gs, r \in rs}
   \cup {[tag_groups |-> g, tags |-> [list |-> FALSE], references |-> r] : g \in gs, r \in rs}

NoCall == [op |-> "none"]
NoRef == [cls |-> "NoneType"]
NoDict == [cls |-> "NoneType"]
NoList == [some |-> FALSE]

(***************************************************************************)
(* find_duplicates applied to a sequence                                   *)
(***************************************************************************)
InitFD ==
  /\ fd_x \in SeqsUpTo(IntUniverse, MaxSeqLen)
  /\ call = NoCall
  /\ ref = NoRef /\ ref0 = NoRef
  /\ tori = NoTori /\ tori0 = NoTori /\ tori_dict = NoDict
  /\ last_collect = NoList /\ prev_collect = NoList

FindDuplicates ==
  /\ call.op = "none"
  /\ call' = [op |-> "find_duplicates", arg |-> fd_x, value |-> find_duplicates(fd_x)]
  /\ UNCHANGED <<fd_x, ref, ref0, tori, tori0, tori_dict, last_collect, prev_collect>>

NextFD == FindDuplicates

SpecFD == InitFD /\ [][NextFD]_vars

(***************************************************************************)
(* add_tag calls on one Reference                                          *)
(***************************************************************************)
InitRef ==
  /\ \E tags \in SeqsUpTo(AddTagUniverse, MaxInitTags) :
       ref = Reference("r", PyStr("a"), NoneVal, tags)
  /\ ref0 = ref
  /\ call = NoCall
  /\ fd_x = <<>>
  /\ tori = NoTori /\ tori0 = NoTori /\ tori_dict = NoDict
  /\ last_collect = NoList /\ prev_collect = NoList

AddTag ==
  \E tag \in AddTagUniverse :
    /\ ref' = add_tag(ref, tag)
    /\ call' = [op |-> "add_tag", arg |-> tag, before |-> ref.tags,
                repeat |-> (call.op = "add_tag" /\ PyEq(call.arg, tag))]
    /\ UNCHANGED <<fd_x, ref0, tori, tori0, tori_dict, last_collect, prev_collect>>

NextRef == AddTag

SpecRef == InitRef /\ [][NextRef]_vars

(***************************************************************************)
(* Calls on a catalog                                                      *)
(***************************************************************************)
Outcome(r) == IF r.raised THEN "raised" ELSE "returned"

Validate ==
  \E collect_errors \in BOOLEAN :
    /\ tori.cls = "TORI"
    /\ LET r == validate(tori, collect_errors) IN
         /\ tori' = r.self
         /\ call' = [op |-> "validate", collect |-> collect_errors,
                     outcome |-> Outcome(r),
                     value |-> IF r.raised THEN r.exc ELSE r.ret,
                     entered |-> r.entered]
         /\ last_collect' = IF collect_errors /\ ~r.raised
                            THEN [some |-> TRUE, v |-> r.ret.v]
                            ELSE last_collect
         /\ prev_collect' = last_collect
    /\ UNCHANGED <<fd_x, ref, ref0, tori0, tori_dict>>

\* A direct call of validate_tag_groups; in collect mode it appends to the
\* messages already held, so the calls are cut off at MaxErrors messages.
ValidateTagGroups ==
  \E collect_errors \in BOOLEAN :
    /\ tori.cls = "TORI"
    /\ Len(tori.errors) < MaxErrors
    /\ LET r == validate_tag_groups(tori, collect_errors) IN
         /\ tori' = r.self
         /\ call' = [op |-> "validate_tag_groups", collect |-> collect_errors,
                     outcome |-> Outcome(r),
                     value |-> IF r.raised THEN r.exc ELSE r.ret]
    /\ UNCHANGED <<fd_x, ref, ref0, tori0, tori_dict, last_collect, prev_collect>>

\* "x in tori" for an element x of the catalog
Contains ==
  /\ tori.cls = "TORI"
  /\ \E x \in Range(tori.tag_groups) \cup Range(tori.tags) \cup Range(tori.references) :
       LET r == in_operator(tori, x) IN
         call' = [op |-> "contains", arg |-> x, outcome |-> Outcome(r),
                  value |-> IF r.raised THEN r.exc ELSE r.ret]
  /\ UNCHANGED <<fd_x, ref, ref0, tori, tori0, tori_dict, last_collect, prev_collect>>

\* A catalog constructed directly from element sequences
Init ==
  /\ \E tag_groups \in SeqsUpTo(TagGroupUniverse, MaxTagGroups),
        tags \in SeqsUpTo(TagUniverse, MaxTags),
        references \in SeqsUpTo(ReferenceUniverse, MaxReferences) :
       tori = TORI(tag_groups, tags, references)
  /\ tori0 = tori
  /\ tori_dict = NoDict
  /\ call = NoCall
  /\ fd_x = <<>>
  /\ ref = NoRef /\ ref0 = NoRef
  /\ last_collect = NoList /\ prev_collect = NoList

Next == Validate \/ ValidateTagGroups

Spec == Init /\ [][Next]_vars

(***************************************************************************)
(* A catalog loaded from an input mapping                                  *)
(***************************************************************************)
InitLoad ==
  /\ tori_dict \in InputDicts
  /\ tori = NoTori /\ tori0 = NoTori
  /\ call = NoCall
  /\ fd_x = <<>>
  /\ ref = NoRef /\ ref0 = NoRef
  /\ last_collect = NoList /\ prev_collect = NoList

LoadDict ==
  /\ call.op = "none"
  /\ tori_dict # NoDict
  /\ LET r == load_dict(tori_dict) IN
       /\ tori' = IF r.raised THEN NoTori ELSE r.ret
       /\ tori0' = tori'
       /\ call' = [op |-> "load_dict", outcome |-> Outcome(r),
                   value |-> IF r.raised THEN r.exc ELSE r.ret]
  /\ UNCHANGED <<fd_x, ref, ref0, tori_dict, last_collect, prev_collect>>

NextLoad == LoadDict \/ Validate \/ Contains

SpecLoad == InitLoad /\ [][NextLoad]_vars

(***************************************************************************)
(* Properties                                                              *)
(***************************************************************************)
\* Two positions of s hold equal values (all attributes equal).
HasDup(s) == \E i, j \in 1..Len(s) : i < j /\ s[i] = s[j]

\* The subsequence of s at the positions in I, in ascending order.
Pick(s, I) ==
  [k \in 1..Cardinality(I) |->
     s[CHOOSE i \in I : Cardinality({j \in I : j <= i}) = k]]

Texts(msgs) == [i \in 1..Len(msgs) |-> msgs[i].text]

TagProblem(t) == t.name = "" \/ t.description = ""
ReferenceProblem(r) == r.title = "" \/ r.author = <<>>

IsValidate(collect) == call.op = "validate" /\ call.collect = collect

\* C1: validate(collect_errors=True) never raises: it returns the list of
\* messages, one at least per detected problem, so at least three on a
\* catalog with a duplicate tag group, a tag without description and a
\* duplicate reference.
C1_CollectNeverRaises ==
  IsValidate(TRUE) =>
    /\ call.outcome = "returned"
    /\ call.value.list
    /\ (/\ HasDup(tori.tag_groups)
        /\ \E i \in 1..Len(tori.tags) : tori.tags[i].description = ""
        /\ HasDup(tori.references)) => Len(call.value.v) >= 3

\* C2: validate(collect_errors=False) checks tag groups, then tags, then
\* references, and raises TORISchemeError at the first failing rule; with a
\* duplicate tag group the error is the tag-group uniqueness error and
\* neither validate_tags nor validate_references is entered.
C2_FailFastOrder ==
  IsValidate(FALSE) =>
    LET tagsBad == {i \in 1..Len(tori.tags) : TagProblem(tori.tags[i])}
        refsBad == {i \in 1..Len(tori.references) : ReferenceProblem(tori.references[i])}
        raisedWith(text) ==
          /\ call.outcome = "raised"
          /\ call.value.type = "TORISchemeError"
          /\ call.value.message.text = text
    IN IF HasDup(tori.tag_groups)
       THEN /\ raisedWith("Tag Groups must be unique, found duplicates")
            /\ call.entered = <<"validate_tag_groups">>
       ELSE IF tagsBad # {} \/ HasDup(tori.tags)
       THEN /\ call.entered = <<"validate_tag_groups", "validate_tags">>
            /\ IF tagsBad = {}
               THEN raisedWith("Tags must be unique, found duplicates")
               ELSE IF tori.tags[Min(tagsBad)].name = ""
                    THEN raisedWith("Tag missing name")
                    ELSE raisedWith("Tag missing description")
       ELSE IF refsBad # {} \/ HasDup(tori.references)
       THEN /\ call.entered = <<"validate_tag_groups", "validate_tags", "validate_references">>
            /\ IF refsBad = {}
               THEN raisedWith("References must be unique, found duplicates")
               ELSE IF tori.references[Min(refsBad)].title = ""
                    THEN raisedWith("Reference missing title")
                    ELSE raisedWith("Reference missing author")
       ELSE /\ call.outcome = "returned"
            /\ call.value.v = TRUE

\* A fail-fast validate has raised on a catalog with a duplicate tag group,
\* a tag without description and a duplicate reference.
C2_Witness ==
  /\ IsValidate(FALSE)
  /\ HasDup(tori.tag_groups)
  /\ \E i \in 1..Len(tori.tags) : tori.tags[i].description = ""
  /\ HasDup(tori.references)
  /\ call.outcome = "raised"

\* C7: validate_tag_groups compares all attributes: two TagGroups with the
\* same name and description fail it (False in collect mode, an exception
\* otherwise); TagGroups that share a name but differ in description pass.
C7_FullAttributeUniqueness ==
  call.op = "validate_tag_groups" =>
    LET gs == tori.tag_groups
        same == \E i, j \in 1..Len(gs) :
                  i < j /\ gs[i].name = gs[j].name /\ gs[i].description = gs[j].description
    IN IF same
       THEN IF call.collect
            THEN call.outcome = "returned" /\ call.value = FALSE
            ELSE call.outcome = "raised" /\ call.value.type = "TORISchemeError"
       ELSE call.outcome = "returned" /\ call.value = TRUE

\* validate_tag_groups has passed two TagGroups of one name and two descriptions.
C7_Witness ==
  /\ call.op = "validate_tag_groups"
  /\ Len(tori.tag_groups) = 2
  /\ tori.tag_groups[1].name = tori.tag_groups[2].name
  /\ tori.tag_groups[1].description # tori.tag_groups[2].description
  /\ call.outcome = "returned"
  /\ call.value = TRUE

C9_AddTagIdempotent ==
  LET n0 == Len(ref0.tags)
      n == Len(ref.tags)
  IN /\ n0 <= n
     /\ SubSeq(ref.tags, 1, n0) = ref0.tags
     /\ [ref EXCEPT !.tags = ref0.tags] = ref0
     /\ \A i \in (n0 + 1)..n : \A j \in 1..(i - 1) : ref.tags[j] # ref.tags[i]
     /\ call.op = "add_tag" =>
          /\ Len(call.before) <= n
          /\ n <= Len(call.before) + 1
          /\ SubSeq(ref.tags, 1, Len(call.before)) = call.before
          /\ \E i \in 1..n : ref.tags[i] = call.arg
          /\ call.repeat => ref.tags = call.before

\* add_tag was called twice in a row with a Tag that the first call added.
C9_Witness ==
  /\ call.op = "add_tag"
  /\ call.repeat
  /\ Len(ref.tags) > Len(ref0.tags)
  /\ ref.tags[Len(ref.tags)] = call.arg

\* C5 as stated: find_duplicates(S) holds each element that occurs more than
\* once exactly once, in the order of the second occurrences.
C5_ReportedOnce ==
  call.op = "find_duplicates" =>
    call.value =
      Pick(fd_x, {i \in 1..Len(fd_x) :
                    Cardinality({j \in 1..(i - 1) : fd_x[j] = fd_x[i]}) = 1})

\* C5, amended: find_duplicates(S) holds, in the order of S, one entry for
\* every occurrence of an element after its first occurrence, so an element
\* that occurs k times appears k - 1 times.
C5_ReportedPerRepeat ==
  call.op = "find_duplicates" =>
    call.value =
      Pick(fd_x, {i \in 1..Len(fd_x) : \E j \in 1..(i - 1) : fd_x[j] = fd_x[i]})

\* find_duplicates was applied to a sequence that holds an element three times.
C5_Witness ==
  /\ call.op = "find_duplicates"
  /\ \E i, j, k \in 1..Len(fd_x) :
       i < j /\ j < k /\ fd_x[i] = fd_x[j] /\ fd_x[j] = fd_x[k]
  /\ Len(call.value) >= 2

\* C6: find_duplicates(S) is empty iff the elements of S are pairwise
\* distinct; [1,2,3] gives [] and [1,2,3,3] gives [3]; S is left as it was.
C6_EmptyIffDistinct ==
  call.op = "find_duplicates" =>
    /\ (call.value = <<>>) <=> ~HasDup(fd_x)
    /\ fd_x = <<PyInt(1), PyInt(2), PyInt(3)>> => call.value = <<>>
    /\ fd_x = <<PyInt(1), PyInt(2), PyInt(3), PyInt(3)>> => call.value = <<PyInt(3)>>
    /\ fd_x = call.arg

\* find_duplicates was applied to [1,2,3,3] and gave [3].
C6_Witness ==
  /\ call.op = "find_duplicates"
  /\ fd_x = <<PyInt(1), PyInt(2), PyInt(3), PyInt(3)>>
  /\ call.value = <<PyInt(3)>>

\* The value of a top-level key, matched without regard to case.
Top(d, k) == d[CHOOSE key \in DOMAIN d : Lower(key) = k]

\* d has the three top-level keys, each a list of mappings.
WellShaped(d) ==
  /\ \A k \in {"tag_groups", "tags", "references"} :
       /\ \E key \in DOMAIN d : Lower(key) = k
       /\ Top(d, k).list
       /\ \A i \in 1..Len(Top(d, k).v) : Top(d, k).v[i].dict

\* d is well formed up to the url key: every mapping has its required keys,
\* every group and tag name resolves.
WellFormedButUrl(d) ==
  /\ WellShaped(d)
  /\ LET gs == Top(d, "tag_groups").v
         ts == Top(d, "tags").v
         rs == Top(d, "references").v
     IN /\ \A i \in 1..Len(gs) : {"name", "description"} \subseteq DOMAIN gs[i].d
        /\ \A i \in 1..Len(ts) :
             /\ {"name", "description", "group"} \subseteq DOMAIN ts[i].d
             /\ ts[i].d.group \in {"Default"} \cup {gs[j].d.name : j \in 1..Len(gs)}
        /\ \A i \in 1..Len(rs) :
             /\ {"title", "author", "tags"} \subseteq DOMAIN rs[i].d
             /\ \A j \in 1..Len(rs[i].d.tags) :
                  rs[i].d.tags[j] \in {ts[k].d.name : k \in 1..Len(ts)}

\* C3: the url key of a reference mapping is optional: load_dict succeeds on
\* an otherwise well-formed input whose reference mappings lack url, and the
\* catalog holds those References.
C3_UrlOptional ==
  (call.op = "load_dict" /\ WellFormedButUrl(tori_dict)) =>
    /\ call.outcome = "returned"
    /\ \A i \in 1..Len(Top(tori_dict, "references").v) :
         \E j \in 1..Len(tori.references) :
           tori.references[j].title = Top(tori_dict, "references").v[i].d.title

\* C4: load_dict either fails with a TORIParseError or returns a catalog in
\* which every Tag's group is one of tag_groups and every tag of every
\* Reference is one of tags.
C4_ParseErrorOrIntegrity ==
  call.op = "load_dict" =>
    \/ call.outcome = "raised" /\ call.value.type = "TORIParseError"
    \/ /\ call.outcome = "returned"
       /\ \A i \in 1..Len(tori.tags) : tori.tags[i].group \in Range(tori.tag_groups)
       /\ \A i \in 1..Len(tori.references) :
            Range(tori.references[i].tags) \subseteq Range(tori.tags)

\* One TagGroup, one Tag that names it, one Reference that names the Tag.
WellFormedSample(d) ==
  /\ WellFormedButUrl(d)
  /\ Len(Top(d, "tag_groups").v) = 1
  /\ Len(Top(d, "tags").v) = 1
  /\ Len(Top(d, "references").v) = 1
  /\ Top(d, "tags").v[1].d.group = Top(d, "tag_groups").v[1].d.name
  /\ Top(d, "references").v[1].d.tags = <<Top(d, "tags").v[1].d.name>>
  /\ "url" \in DOMAIN Top(d, "references").v[1].d

\* C8: a well-formed input loads into a catalog for which validate() returns
\* True and "element in catalog" is true of every element built.
C8_RoundTrip ==
  WellFormedSample(tori_dict) =>
    /\ call.op = "load_dict" => call.outcome = "returned"
    /\ IsValidate(FALSE) => call.outcome = "returned" /\ call.value.v = TRUE
    /\ call.op = "contains" => call.outcome = "returned" /\ call.value = TRUE

====
